---- MODULE Spec2Model ----
(***************************************************************************)
(* Model of service/libre-user/src/oauth/casdoor.rs: the OAuth2            *)
(* authorization-code + PKCE login flow (handlers `auth` and `callback`,   *)
(* helper `get_user_info_from_github`, conversion                          *)
(* `From<CasdoorUser> for models::User`).                                  *)
(*                                                                         *)
(* Shared state: the Redis correlation store (state -> PKCE verifier) and  *)
(* the Postgres account table.  Every `.await` of `callback` is a point    *)
(* where other requests may run, so each awaited operation is one action.  *)
(***************************************************************************)
EXTENDS Integers, Sequences, FiniteSets, TLC

\* ---------------------------------------------------------------- bounds
MaxAuth == 2        \* number of /auth requests served
NumCallbacks == 2   \* number of /callback requests served
MaxSub == 2         \* number of distinct remote identities (sub values)

Procs == 1..NumCallbacks
Subs == 1..MaxSub
\* Authorization codes: the code handed out for remote identity x is x.
Codes == Subs
\* A state value no /auth ever generated (a forged callback).
ForgedState == 0

\* Option<T>
None == <<>>
Some(x) == <<x>>

VARIABLES
    store,      \* Redis: function from state to PKCE verifier
    expiry,     \* Redis: per key, its time to live (None: the key persists)
    accounts,   \* Postgres user table: set of models::User rows
    issued,     \* number of (state, verifier) pairs generated so far
    nextUid,    \* number of uuids generated so far
    redirects,  \* responses of auth: the states sent out in a 302
    req,        \* the callback requests in flight: one record per request
    reads       \* history: per state, how many callbacks read its verifier

vars == <<store, expiry, accounts, issued, nextUid, redirects, req, reads>>

\* ------------------------------------------------------- values and errors
\* CsrfToken::new_random / PkceCodeChallenge::new_random_sha256: the n-th call
\* yields a fresh value; state and verifier are different secrets.
CsrfToken(n) == n
PkceVerifier(n) == <<"verifier", n>>
PkceChallenge(v) == <<"S256", v>>

\* actix_web::error::ErrorBadRequest / ErrorInternalServerError
ErrorBadRequest(m) == [type |-> "BadRequest", msg |-> m]
ErrorInternalServerError(m) == [type |-> "InternalServerError", msg |-> m]
\* super::Error, as constructed in get_user_info_from_github
ErrorOther(m) == [type |-> "Error::Other", msg |-> m]
ErrorAuthentication == [type |-> "Error::Authentication", msg |-> "unauthorized"]
\* errors of the collaborators, converted by `?`
RedisPoolError == [type |-> "RedisPool", msg |-> "unavailable"]
PostgresPoolError == [type |-> "PostgresPool", msg |-> "unavailable"]
ModelsError(v) == [type |-> "models::Error", msg |-> v]

\* Status of an error whose ResponseError impl lives outside this file
\* (super::Error, models::Error, the pool errors): the taxonomy of the design.
ForeignStatus(e) ==
    CASE e.type = "Error::Authentication" -> 401
      [] e.type = "Error::Other" /\ e.msg = "Unsupported token type" -> 400
      [] e.type = "models::Error" /\ e.msg = "NotFound" -> 404
      [] OTHER -> 500

\* HTTP status of the response actix builds from an error.
StatusOf(e) ==
    CASE e.type = "BadRequest" -> 400
      [] e.type = "InternalServerError" -> 500
      [] OTHER -> ForeignStatus(e)

\* ------------------------------------------------------------ responses
NoResp == [tag |-> "None", status |-> 0, err |-> None, user |-> None, token |-> None]
ErrResp(e) == [tag |-> "Err", status |-> StatusOf(e), err |-> Some(e),
               user |-> None, token |-> None]
\* HttpResponse::SeeOther().append_header(("Location", "/")).json(body)
SeeOther(u, t) == [tag |-> "Ok", status |-> 303, err |-> None,
                   user |-> Some(u), token |-> Some(t)]

\* ------------------------------------------------------------- accounts
\* impl From<CasdoorUser> for models::User; uid is the fresh uuid.
FromCasdoorUser(user, uid) ==
    [ uid        |-> uid,
      name       |-> user.preferred_username,
      login      |-> user.name,
      email      |-> user.email,
      admin      |-> FALSE,
      github_id  |-> None,
      casdoor_id |-> Some(user.sub) ]

\* models::User::find_by_github_id(id): the rows whose github_id column is id.
find_by_github_id(id, table) ==
    LET hit == {a \in table : a.github_id = Some(id)}
    IN  IF hit = {} THEN [tag |-> "NotFound", user |-> None]
        ELSE [tag |-> "Ok", user |-> Some(CHOOSE a \in hit : TRUE)]

\* A table whose only constraint is the primary key.
UniqueViolation_PrimaryKeyOnly(new, table) ==
    \E a \in table : a.uid = new.uid

\* The account table's constraints: primary key and one row per provider id.
UniqueViolation(new, table) ==
    \E a \in table :
        \/ a.uid = new.uid
        \/ new.casdoor_id # None /\ a.casdoor_id = new.casdoor_id
        \/ new.github_id # None /\ a.github_id = new.github_id

\* jsonwebtoken::Claims::from(&user).expiration(1h).generate_jwt(..)
generate_jwt(user) == <<"jwt", user.uid>>

\* ------------------------------------------------ the remote provider
\* The userinfo body the provider returns for the holder of a token.
Bodies(sub) ==
    { [wellformed |-> w, sub |-> sub, email |-> e] :
        w \in BOOLEAN, e \in {None, Some("mail")} }

\* response.json::<CasdoorUser>(): every field of the struct is required.
ParseUser(body) ==
    IF body.wellformed /\ body.email # None
    THEN Some([sub |-> body.sub, name |-> "name", preferred_username |-> "nick",
               email |-> body.email[1]])
    ELSE None

\* ------------------------------------------------------------ requests
Idle == [pc |-> "idle", state |-> ForgedState, code |-> 0, verifier |-> None,
         token |-> None, fetch |-> None, user |-> None, find |-> "None",
         new |-> None,
         resp |-> NoResp, trace |-> <<>>]

\* A user table as left by the other login flows of the service: empty, or
\* one account linked through the GitHub provider.
GithubAccount == [uid |-> 0, name |-> "gh", login |-> "gh", email |-> "gh-mail",
                  admin |-> FALSE, github_id |-> Some(1), casdoor_id |-> None]

Init ==
    /\ store = << >>
    /\ expiry = << >>
    /\ accounts \in {{}, {GithubAccount}}
    /\ issued = 0
    /\ nextUid = 0
    /\ redirects = {}
    /\ req = [p \in Procs |-> Idle]
    /\ reads = [s \in {ForgedState} \cup (1..MaxAuth) |-> 0]

\* The time to live `redis.set(key, value)` gives the key: SET carries no
\* EX/PX option (it is not set_ex), so the key never expires.
NoExpiry == None

\* A plausible slip: the entry is stored under one fixed key instead of under
\* the state.
RedisSet_SharedKey(st, k, v) ==
    [x \in DOMAIN st \cup {1} |-> IF x = 1 THEN v ELSE st[x]]

\* redis SET key value
RedisSet(st, k, v) == [x \in DOMAIN st \cup {k} |-> IF x = k THEN v ELSE st[x]]

\* ------------------------------------------------------------ auth
\* async fn auth: generate verifier and state, SET state verifier (the result
\* is discarded by `let _ =`), answer 302 with Location and X-CSRF-Token.
auth(set_ok) ==
    /\ issued < MaxAuth
    /\ LET csrf_state == CsrfToken(issued + 1)
           pkce_verifier == PkceVerifier(issued + 1)
       IN  /\ store' = IF set_ok THEN RedisSet(store, csrf_state, pkce_verifier)
                       ELSE store
           /\ expiry' = IF set_ok THEN RedisSet(expiry, csrf_state, NoExpiry)
                        ELSE expiry
           /\ redirects' = redirects \cup
                  {[ status |-> 302,
                     location |-> [state |-> csrf_state,
                                   challenge |-> PkceChallenge(pkce_verifier)],
                     csrf_header |-> csrf_state ]}
    /\ issued' = issued + 1
    /\ UNCHANGED <<accounts, nextUid, req, reads>>

\* ------------------------------------------------------------ callback
Step(p, name) == Append(req[p].trace, name)

\* `return Err(e)` / `?`: the request ends with the error response.
Fail(p, e, tr) ==
    req' = [req EXCEPT ![p] = [@ EXCEPT !.pc = "done", !.resp = ErrResp(e),
                                        !.trace = tr]]

\* Is step `name` among the steps a request has taken?
Has(tr, name) == \E i \in 1..Len(tr) : tr[i] = name

\* A callback request arrives with ?state=s&code=c.  s is a state some auth
\* sent out, or a forged one; slots are taken in order.
CallbackBegin(p, s, c) ==
    /\ req[p].pc = "idle"
    /\ IF p = 1 THEN TRUE ELSE req[p - 1].pc # "idle"
    /\ s \in {ForgedState} \cup (1..issued)
    /\ c \in Codes
    /\ req' = [req EXCEPT ![p] = [@ EXCEPT !.pc = "redis_conn", !.state = s,
                                           !.code = c]]
    /\ UNCHANGED <<store, expiry, accounts, issued, nextUid, redirects, reads>>

\* let mut redis_conn = redis_pool.get().await?;
RedisConn(p, ok) ==
    /\ req[p].pc = "redis_conn"
    /\ IF ok
       THEN req' = [req EXCEPT ![p].pc = "redis_get"]
       ELSE Fail(p, RedisPoolError, req[p].trace)
    /\ UNCHANGED <<store, expiry, accounts, issued, nextUid, redirects, reads>>

\* A plausible slip: the reply is read as an Option and defaulted, so a missing
\* key yields an empty verifier instead of an error.
redis_get_NilAsEmpty(st, key, ok) ==
    IF ~ok THEN [err |-> Some("io"), value |-> None]
    ELSE IF key \in DOMAIN st THEN [err |-> None, value |-> Some(st[key])]
    ELSE [err |-> None, value |-> Some(<<"verifier", 0>>)]

\* redis_conn.get::<_, String>(key).await: GET leaves the key in place; a
\* missing key is nil, which does not convert to a String (an error, like a
\* failed read).
redis_get(st, key, ok) ==
    IF ~ok THEN [err |-> Some("io"), value |-> None]
    ELSE IF key \in DOMAIN st THEN [err |-> None, value |-> Some(st[key])]
    ELSE [err |-> Some("nil"), value |-> None]

\* PkceCodeVerifier::new(redis_conn.get(state).await.map_err(ErrorBadRequest)?)
RedisGet(p, ok) ==
    /\ req[p].pc = "redis_get"
    /\ LET s == req[p].state
           tr == Step(p, "state_lookup")
           r == redis_get(store, s, ok)
       IN  IF r.err = None
           THEN /\ req' = [req EXCEPT ![p] = [@ EXCEPT !.pc = "exchange",
                                  !.verifier = r.value, !.trace = tr]]
                /\ reads' = [reads EXCEPT ![s] = @ + 1]
           ELSE /\ Fail(p, ErrorBadRequest(r.err[1]), tr)
                /\ UNCHANGED reads
    /\ UNCHANGED <<store, expiry, accounts, issued, nextUid, redirects>>

\* github.exchange_code(code).set_pkce_verifier(v).request_async(..).await:
\* the provider grants a token (of some type) or rejects the request
\* (ServerResponse -> 400), or the request itself fails (-> 500).
ExchangeOutcomes == {"bearer", "mac", "ServerResponse", "Request"}

ExchangeCode(p, outcome) ==
    /\ req[p].pc = "exchange"
    /\ LET tr == Step(p, "token_exchange")
       IN  CASE outcome \in {"bearer", "mac"} ->
                  req' = [req EXCEPT ![p] = [@ EXCEPT !.pc = "userinfo",
                              !.token = Some([token_type |-> outcome,
                                              access_token |-> req[p].code]),
                              !.trace = tr]]
             [] outcome = "ServerResponse" ->
                  Fail(p, ErrorBadRequest("provider error"), tr)
             [] OTHER ->
                  Fail(p, ErrorInternalServerError("request failed"), tr)
    /\ UNCHANGED <<store, expiry, accounts, issued, nextUid, redirects, reads>>

\* What the GET of the userinfo endpoint can come to: the send fails, or a
\* response arrives with a status and, when 200, a body.
FetchOutcomes(sub) ==
    {[sent |-> FALSE, status |-> 0, body |-> None]}
    \cup {[sent |-> TRUE, status |-> st, body |-> None] : st \in {401, 500}}
    \cup {[sent |-> TRUE, status |-> 200, body |-> Some(b)] : b \in Bodies(sub)}

\* A plausible slip: a body that does not parse is replaced by a profile with
\* defaulted fields instead of being an error.
get_user_info_DefaultOnParseError(token, out) ==
    IF token.token_type # "bearer"
    THEN [err |-> Some(ErrorOther("Unsupported token type")), user |-> None,
          fetch |-> None, steps |-> <<"token_type_check">>]
    ELSE IF ~out.sent
    THEN [err |-> Some(ErrorOther("Failed to get user info from Github")),
          user |-> None, fetch |-> Some(out),
          steps |-> <<"token_type_check", "profile_fetch">>]
    ELSE IF out.status = 401
    THEN [err |-> Some(ErrorAuthentication), user |-> None, fetch |-> Some(out),
          steps |-> <<"token_type_check", "profile_fetch">>]
    ELSE IF out.status # 200
    THEN [err |-> Some(ErrorOther("Failed to get user info from Github")),
          user |-> None, fetch |-> Some(out),
          steps |-> <<"token_type_check", "profile_fetch">>]
    ELSE IF ParseUser(out.body[1]) = None
    THEN [err |-> None,
          user |-> Some([sub |-> out.body[1].sub, name |-> "",
                         preferred_username |-> "", email |-> ""]),
          fetch |-> Some(out),
          steps |-> <<"token_type_check", "profile_fetch", "profile_parse">>]
    ELSE [err |-> None, user |-> ParseUser(out.body[1]), fetch |-> Some(out),
          steps |-> <<"token_type_check", "profile_fetch", "profile_parse">>]

\* A plausible slip: the token type is logged but not matched on, so the
\* profile request is sent whatever the type.
get_user_info_AnyTokenType(token, out) ==
    IF FALSE
    THEN [err |-> Some(ErrorOther("Unsupported token type")), user |-> None,
          fetch |-> None, steps |-> <<"token_type_check">>]
    ELSE IF ~out.sent
    THEN [err |-> Some(ErrorOther("Failed to get user info from Github")),
          user |-> None, fetch |-> Some(out),
          steps |-> <<"token_type_check", "profile_fetch">>]
    ELSE IF out.status = 401
    THEN [err |-> Some(ErrorAuthentication), user |-> None, fetch |-> Some(out),
          steps |-> <<"token_type_check", "profile_fetch">>]
    ELSE IF out.status # 200
    THEN [err |-> Some(ErrorOther("Failed to get user info from Github")),
          user |-> None, fetch |-> Some(out),
          steps |-> <<"token_type_check", "profile_fetch">>]
    ELSE IF ParseUser(out.body[1]) = None
    THEN [err |-> Some(ErrorOther("Failed to parse user info from Github")),
          user |-> None, fetch |-> Some(out),
          steps |-> <<"token_type_check", "profile_fetch", "profile_parse">>]
    ELSE [err |-> None, user |-> ParseUser(out.body[1]), fetch |-> Some(out),
          steps |-> <<"token_type_check", "profile_fetch", "profile_parse">>]

\* async fn get_user_info_from_github(token): the result, and the steps taken.
get_user_info_from_github(token, out) ==
    IF token.token_type # "bearer"
    THEN [err |-> Some(ErrorOther("Unsupported token type")), user |-> None,
          fetch |-> None, steps |-> <<"token_type_check">>]
    ELSE IF ~out.sent
    THEN [err |-> Some(ErrorOther("Failed to get user info from Github")),
          user |-> None, fetch |-> Some(out),
          steps |-> <<"token_type_check", "profile_fetch">>]
    ELSE IF out.status = 401
    THEN [err |-> Some(ErrorAuthentication), user |-> None, fetch |-> Some(out),
          steps |-> <<"token_type_check", "profile_fetch">>]
    ELSE IF out.status # 200
    THEN [err |-> Some(ErrorOther("Failed to get user info from Github")),
          user |-> None, fetch |-> Some(out),
          steps |-> <<"token_type_check", "profile_fetch">>]
    ELSE IF ParseUser(out.body[1]) = None
    THEN [err |-> Some(ErrorOther("Failed to parse user info from Github")),
          user |-> None, fetch |-> Some(out),
          steps |-> <<"token_type_check", "profile_fetch", "profile_parse">>]
    ELSE [err |-> None, user |-> ParseUser(out.body[1]), fetch |-> Some(out),
          steps |-> <<"token_type_check", "profile_fetch", "profile_parse">>]

\* let github_user = get_user_info_from_github(&token).await?;
GetUserInfo(p, out) ==
    /\ req[p].pc = "userinfo"
    /\ out \in FetchOutcomes(req[p].token[1].access_token)
    /\ LET r == get_user_info_from_github(req[p].token[1], out)
           tr == req[p].trace \o r.steps
       IN  IF r.err = None
           THEN req' = [req EXCEPT ![p] = [@ EXCEPT !.pc = "pg_conn",
                              !.fetch = r.fetch, !.user = r.user, !.trace = tr]]
           ELSE req' = [req EXCEPT ![p] = [@ EXCEPT !.pc = "done",
                              !.fetch = r.fetch, !.resp = ErrResp(r.err[1]),
                              !.trace = tr]]
    /\ UNCHANGED <<store, expiry, accounts, issued, nextUid, redirects, reads>>

\* let mut conn = postgres_pool.get().await?;
PgConn(p, ok) ==
    /\ req[p].pc = "pg_conn"
    /\ IF ok
       THEN req' = [req EXCEPT ![p].pc = "find"]
       ELSE Fail(p, PostgresPoolError, req[p].trace)
    /\ UNCHANGED <<store, expiry, accounts, issued, nextUid, redirects, reads>>

\* The identifier the lookup reads from the profile (`github_user.id`).
ProfileId(user) == user.sub

\* A plausible slip: when the JWT cannot be generated the client is sent back
\* to "/" all the same, with the error in the body.
Issue_RedirectOnJwtError(p, r, libre_user, jwt_ok, tr) ==
    IF jwt_ok
    THEN req' = [req EXCEPT ![p] = [r EXCEPT !.pc = "done",
                     !.resp = SeeOther(libre_user, generate_jwt(libre_user)),
                     !.trace = tr \o <<"session_issue", "response">>]]
    ELSE req' = [req EXCEPT ![p] = [r EXCEPT !.pc = "done",
                     !.resp = [ErrResp(ErrorInternalServerError("jwt"))
                                  EXCEPT !.status = 303],
                     !.trace = tr \o <<"session_issue">>]]

\* generate the JWT and answer: 303 with {user, token}, or 500.
Issue(p, r, libre_user, jwt_ok, tr) ==
    IF jwt_ok
    THEN req' = [req EXCEPT ![p] = [r EXCEPT !.pc = "done",
                     !.resp = SeeOther(libre_user, generate_jwt(libre_user)),
                     !.trace = tr \o <<"session_issue", "response">>]]
    ELSE req' = [req EXCEPT ![p] = [r EXCEPT !.pc = "done",
                     !.resp = ErrResp(ErrorInternalServerError("jwt")),
                     !.trace = tr \o <<"session_issue">>]]

\* A plausible slip: a found account is refreshed from the profile, going
\* through the conversion and the insert like a new one.
find_arm_FoundIsRefreshed(tag) ==
    CASE tag = "Ok" -> "sign-up"
      [] tag = "NotFound" -> "sign-up"
      [] OTHER -> "return"

\* A plausible slip: every failed lookup is taken for "no such account".
find_arm_AnyErrIsSignUp(tag) ==
    IF tag = "Ok" THEN "sign-in" ELSE "sign-up"

\* match find_result { Ok(user) => .., Err(NotFound) => .., Err(err) => return }
find_arm(tag) ==
    CASE tag = "Ok" -> "sign-in"
      [] tag = "NotFound" -> "sign-up"
      [] OTHER -> "return"

\* find_result = find_by_github_id(..).await and the match on it: a found
\* account goes on to the JWT, NotFound converts the profile and goes on to
\* create, any other error is returned.
Find(p, db_ok, jwt_ok) ==
    /\ req[p].pc = "find"
    /\ LET user == req[p].user[1]
           tr == Step(p, "account_lookup")
           find_result == IF db_ok THEN find_by_github_id(ProfileId(user), accounts)
                          ELSE [tag |-> "Database", user |-> None]
           r == [req[p] EXCEPT !.find = find_result.tag]
           arm == find_arm(find_result.tag)
       IN  CASE arm = "sign-in" ->
                  /\ Issue(p, r, find_result.user[1], jwt_ok,  tr)
                  /\ UNCHANGED nextUid
             [] arm = "sign-up" ->
                  /\ req' = [req EXCEPT ![p] = [r EXCEPT !.pc = "create",
                                 !.new = Some(FromCasdoorUser(user, nextUid + 1)),
                                 !.trace = tr]]
                  /\ nextUid' = nextUid + 1
             [] OTHER ->
                  /\ req' = [req EXCEPT ![p] = [r EXCEPT !.pc = "done",
                                 !.resp = ErrResp(ModelsError(find_result.tag)),
                                 !.trace = tr]]
                  /\ UNCHANGED nextUid
    /\ UNCHANGED <<store, expiry, accounts, issued, redirects, reads>>

\* models::User::create(&mut conn): INSERT, subject to the table's constraints.
create(new, table, db_ok) ==
    IF ~db_ok THEN [err |-> Some(ModelsError("Database")), table |-> table]
    ELSE IF UniqueViolation(new, table)
    THEN [err |-> Some(ModelsError("UniqueViolation")), table |-> table]
    ELSE [err |-> None, table |-> table \cup {new}]

\* models::User::from(github_user).create(&mut conn).await? and then the JWT.
Create(p, db_ok, jwt_ok) ==
    /\ req[p].pc = "create"
    /\ LET new == req[p].new[1]
           r == create(new, accounts, db_ok)
           tr == Step(p, "account_create")
       IN  /\ accounts' = r.table
           /\ IF r.err = None
              THEN Issue(p, req[p], new, jwt_ok, tr)
              ELSE Fail(p, r.err[1], tr)
    /\ UNCHANGED <<store, expiry, issued, nextUid, redirects, reads>>

Next ==
    \/ \E ok \in BOOLEAN : auth(ok)
    \/ \E p \in Procs, s \in 0..MaxAuth, c \in Codes : CallbackBegin(p, s, c)
    \/ \E p \in Procs, ok \in BOOLEAN : RedisConn(p, ok)
    \/ \E p \in Procs, ok \in BOOLEAN : RedisGet(p, ok)
    \/ \E p \in Procs, o \in ExchangeOutcomes : ExchangeCode(p, o)
    \/ \E p \in Procs, o \in UNION {FetchOutcomes(x) : x \in Subs} : GetUserInfo(p, o)
    \/ \E p \in Procs, ok \in BOOLEAN : PgConn(p, ok)
    \/ \E p \in Procs, db_ok \in BOOLEAN, jwt_ok \in BOOLEAN : Find(p, db_ok, jwt_ok)
    \/ \E p \in Procs, db_ok \in BOOLEAN, jwt_ok \in BOOLEAN : Create(p, db_ok, jwt_ok)

Spec == Init /\ [][Next]_vars

\* ======================================================================
\* Properties
\* ======================================================================
Done(p) == req[p].pc = "done"
Succeeded(p) == Done(p) /\ req[p].resp.tag = "Ok"
ClientError(p) == Done(p) /\ req[p].resp.tag = "Err"
                  /\ req[p].resp.status >= 400 /\ req[p].resp.status < 500
\* The accounts this flow created (linked to the casdoor subject).
Linked(x) == {a \in accounts : a.casdoor_id = Some(x)}

\* C1: for every state written by auth, the callback's lookup of the verifier
\* succeeds at most once; a later callback with the same state is rejected
\* before the token exchange.
C1_SingleUse == \A s \in DOMAIN reads : reads[s] <= 1

\* C2 as stated: a callback whose state was never written to the store ends
\* in a client error (4xx) and does not touch the account table.
C2_NeverIssuedIsClientError ==
    \A p \in Procs :
        (Done(p) /\ req[p].state \notin DOMAIN store)
            => ClientError(p) /\ ~Has(req[p].trace, "account_create")

\* C2 (amended): a callback whose state was never written to the store ends
\* in an error and never reaches the token exchange, the account lookup or the
\* create: the error is 400 Bad Request once a store connection was obtained,
\* and the pool's own error when it was not.
C2_NeverIssuedFails ==
    \A p \in Procs :
        (req[p].pc # "idle" /\ req[p].state \notin DOMAIN store)
            => /\ req[p].pc \in {"redis_conn", "redis_get", "done"}
               /\ req[p].verifier = None
               /\ ~Has(req[p].trace, "token_exchange")
               /\ ~Has(req[p].trace, "account_lookup")
               /\ ~Has(req[p].trace, "account_create")
               /\ Done(p) =>
                    /\ req[p].resp.tag = "Err"
                    /\ IF Has(req[p].trace, "state_lookup")
                       THEN req[p].resp.status = 400
                       ELSE req[p].resp.err = Some(RedisPoolError)

C2_Witness ==
    \E p \in Procs :
        /\ Done(p) /\ req[p].state \notin DOMAIN store
        /\ req[p].resp.status = 400
        /\ req[p].state # ForgedState

C4_LostRaceRereads ==
    \A p, q \in Procs :
        ( /\ p # q /\ Done(p) /\ Done(q)
          /\ req[p].state # req[q].state
          /\ req[p].find = "NotFound" /\ req[q].find = "NotFound"
          /\ req[p].user[1].sub = req[q].user[1].sub
          /\ \A r \in {p, q} :
                req[r].resp.err \notin {Some(ModelsError("Database")),
                                        Some(ErrorInternalServerError("jwt"))} )
        => /\ Succeeded(p) /\ Succeeded(q)
           /\ req[p].resp.user[1].uid = req[q].resp.user[1].uid

\* C5: the record created on sign-up is the one the next login's lookup finds:
\* for every account created by this flow for subject x, the lookup with the
\* key the callback uses for x returns that account.
C5_SignUpIsFoundAgain ==
    \A p \in Procs :
        (Succeeded(p) /\ Has(req[p].trace, "account_create"))
            => find_by_github_id(ProfileId(req[p].user[1]), accounts)
                   = [tag |-> "Ok", user |-> req[p].resp.user]

\* C6: whenever auth has answered with a redirect carrying state s, the store
\* holds an entry keyed by s.
C6_RedirectImpliesStored ==
    \A r \in redirects : r.location.state \in DOMAIN store

\* C7: an auth that answers with its redirect adds exactly one entry to the
\* store, keyed by the state of the redirect URL and of the X-CSRF-Token
\* header, whose value is the verifier generated in that call (the one behind
\* the URL's challenge); the other entries and the account table are unchanged.
C7_AuthAddsOneEntry ==
    [][ issued' = issued + 1 =>
          \E r \in redirects' \ redirects :
            /\ r.location.state = r.csrf_header
            /\ r.csrf_header \notin DOMAIN store
            /\ DOMAIN store' = DOMAIN store \cup {r.csrf_header}
            /\ PkceChallenge(store'[r.csrf_header]) = r.location.challenge
            /\ \A k \in DOMAIN store : store'[k] = store[k]
            /\ accounts' = accounts ]_vars

\* C8: a callback with an issued, not yet consumed state, an accepted code, a
\* bearer token and a parseable profile with sub = x, with storage and signing
\* available, succeeds with an account linked to x and a non-empty session
\* credential, and afterwards the store has no entry for its state.
C8_ScenarioB ==
    \A p \in Procs :
        ( /\ Done(p)
          /\ req[p].verifier # None /\ reads[req[p].state] = 1
          /\ req[p].token # None /\ req[p].token[1].token_type = "bearer"
          /\ req[p].user # None
          /\ req[p].resp.err \notin {Some(PostgresPoolError),
                                     Some(ModelsError("Database")),
                                     Some(ErrorInternalServerError("jwt"))} )
        => /\ Succeeded(p)
           /\ req[p].resp.user[1].casdoor_id = Some(req[p].user[1].sub)
           /\ req[p].resp.token # None
           /\ req[p].state \notin DOMAIN store

C10_CreateOnlyAfterNotFound ==
    \A p \in Procs :
        /\ (req[p].pc = "create" \/ Has(req[p].trace, "account_create")
              \/ req[p].new # None)
                => req[p].find = "NotFound"
        /\ req[p].find \notin {"None", "Ok", "NotFound"}
                => /\ Done(p)
                   /\ req[p].resp.err = Some(ModelsError(req[p].find))
                   /\ ~Has(req[p].trace, "account_create")
                   /\ ~Has(req[p].trace, "session_issue")

C10_Witness ==
    \E p \in Procs :
        /\ Done(p) /\ req[p].find = "Database"
        /\ Has(req[p].trace, "account_lookup")

\* C11: every entry of the correlation store is stored with a time to live,
\* so that an entry no callback consumes expires.
C11_EntriesHaveTtl == \A k \in DOMAIN store : expiry[k] # None

\* The callback went through every step: verifier read, bearer token granted,
\* profile fetched and parsed, account found or created, JWT generated.
FullSuccess(p) ==
    /\ req[p].verifier # None
    /\ req[p].token # None /\ req[p].token[1].token_type = "bearer"
    /\ req[p].user # None
    /\ IF req[p].find = "Ok"
       THEN ~Has(req[p].trace, "account_create")
       ELSE /\ req[p].find = "NotFound"
            /\ Has(req[p].trace, "account_create")
            /\ req[p].new # None /\ req[p].new[1] \in accounts
    /\ Has(req[p].trace, "session_issue")
    /\ req[p].resp.token = Some(generate_jwt(req[p].resp.user[1]))

\* C12: a callback that fails at any step ends in an error response (4xx or
\* 5xx), never in a redirect; the callback answers with a redirect (303) only
\* when every step succeeded.
C12_RedirectOnlyOnFullSuccess ==
    \A p \in Procs :
        Done(p) =>
            IF req[p].resp.status \in 300..399
            THEN /\ req[p].resp.tag = "Ok" /\ req[p].resp.err = None
                 /\ FullSuccess(p)
            ELSE /\ req[p].resp.tag = "Err" /\ req[p].resp.err # None
                 /\ req[p].resp.status \in 400..599
                 /\ req[p].resp.user = None /\ req[p].resp.token = None
                 /\ ~Has(req[p].trace, "response")

\* One callback failed at the session issuance, another at an earlier step,
\* each with an error response.
C12_Witness ==
    \E p, q \in Procs :
        /\ Done(p) /\ req[p].resp.tag = "Err"
        /\ Has(req[p].trace, "session_issue")
        /\ Done(q) /\ req[q].resp.tag = "Err"
        /\ req[q].resp.status \in 400..499
        /\ ~Has(req[q].trace, "session_issue")

\* C13 as stated: a callback whose profile body is well formed but carries no
\* email field does not fail on that account: the body is parsed, and a
\* sign-up from it stores an account whose email is the empty string.
C13_NoEmailIsEmptyEmail ==
    \A p \in Procs :
        (/\ req[p].fetch # None
         /\ req[p].fetch[1].status = 200
         /\ req[p].fetch[1].body[1].wellformed
         /\ req[p].fetch[1].body[1].email = None)
            => /\ req[p].user # None
               /\ req[p].new # None => req[p].new[1].email = ""

\* The steps of a callback in the order of the handler's code; the create is
\* taken on the sign-up arm only.
StepOrder == <<"state_lookup", "token_exchange", "token_type_check",
               "profile_fetch", "profile_parse", "account_lookup",
               "account_create", "session_issue", "response">>
SignInOrder == <<"state_lookup", "token_exchange", "token_type_check",
                 "profile_fetch", "profile_parse", "account_lookup",
                 "session_issue", "response">>
IsPrefix(a, b) == Len(a) <= Len(b) /\ \A i \in 1..Len(a) : a[i] = b[i]

\* Every step a request has taken came after the success of the one before.
InOrder(r) ==
    /\ IsPrefix(r.trace, StepOrder) \/ IsPrefix(r.trace, SignInOrder)
    /\ Has(r.trace, "token_exchange") => r.verifier # None
    /\ Has(r.trace, "token_type_check") => r.token # None
    /\ Has(r.trace, "profile_fetch") => r.token[1].token_type = "bearer"
    /\ Has(r.trace, "profile_parse") => r.fetch # None /\ r.fetch[1].status = 200
    /\ Has(r.trace, "account_lookup") => r.user # None
    /\ Has(r.trace, "account_create") => r.find = "NotFound"
    /\ Has(r.trace, "session_issue") =>
           IF Has(r.trace, "account_create")
           THEN r.new # None /\ r.find = "NotFound"
           ELSE r.find = "Ok"
    /\ Has(r.trace, "response") => r.resp.tag = "Ok"
    /\ r.resp.tag = "Err" => r.pc = "done"

\* C14: within one callback the steps occur in the fixed order state lookup,
\* token exchange, token-type check, profile fetch, account lookup/create,
\* session issuance, response; a step is taken only after the previous one
\* succeeded, each step of the handler adds to the steps taken without
\* reordering them, and a request that has failed takes no further step.
C14_StepsInOrder ==
    [][\A p \in Procs :
          /\ InOrder(req'[p])
          /\ IsPrefix(req[p].trace, req'[p].trace)
          /\ Done(p) => req'[p] = req[p]]_vars

\* One callback failed at the profile fetch after a successful exchange, and
\* another went through all the steps, the create included.
C14_Witness ==
    \E p, q \in Procs :
        /\ Done(p) /\ req[p].resp.tag = "Err"
        /\ req[p].trace = <<"state_lookup", "token_exchange",
                            "token_type_check", "profile_fetch">>
        /\ Done(q) /\ req[q].trace = StepOrder

\* The callback could not reach the correlation store, or its read failed
\* (the key being absent is not a store failure).
StoreFailure(p) ==
    /\ Done(p) /\ req[p].resp.tag = "Err"
    /\ \/ req[p].resp.err = Some(RedisPoolError)
       \/ req[p].resp.err = Some(ErrorBadRequest("io"))

\* C15: a callback that ends because the correlation store was unavailable or
\* its read failed reports an infrastructure error (5xx), never a client
\* error.
C15_StoreFailureIs5xx ==
    \A p \in Procs : StoreFailure(p) => req[p].resp.status \in 500..599

\* Why the token exchange or the profile fetch of a finished callback failed.
Cause(p) ==
    CASE req[p].resp.err = Some(ErrorBadRequest("provider error")) -> "provider error body"
      [] req[p].resp.err = Some(ErrorInternalServerError("request failed")) -> "transport"
      [] req[p].fetch # None /\ ~req[p].fetch[1].sent -> "transport"
      [] req[p].fetch # None /\ req[p].fetch[1].status = 401 -> "unauthorized"
      [] req[p].fetch # None /\ req[p].fetch[1].status = 200
           /\ ~req[p].fetch[1].body[1].wellformed -> "unparseable"
      [] OTHER -> "none"

\* C16: failures of the token exchange and the profile fetch are classified by
\* cause (provider error body, unauthorized, transport, unparseable body), and
\* two failures of different causes are never reported as the same error
\* kind.
C16_CausesHaveDistinctKinds ==
    \A p, q \in Procs :
        (/\ Done(p) /\ Done(q)
         /\ Cause(p) # "none" /\ Cause(q) # "none"
         /\ Cause(p) # Cause(q))
            => req[p].resp.err[1].type # req[q].resp.err[1].type

\* v is the verifier auth generated together with state s: its challenge went
\* out in the redirect (one of `sent`) that carried s.
GeneratedWith(s, v, sent) ==
    \E r \in sent :
        r.csrf_header = s /\ r.location.state = s
        /\ r.location.challenge = PkceChallenge(v)

\* C17: with several attempts interleaved, the verifier a callback uses for
\* state s is the one auth generated with s and stored under s, never the
\* verifier of another attempt; and the value stored under a state does not
\* change while the entry exists.
C17_VerifierMatchesState ==
    [][/\ \A k \in DOMAIN store :
             k \in DOMAIN store' => store'[k] = store[k]
       /\ \A k \in DOMAIN store' : GeneratedWith(k, store'[k], redirects')
       /\ \A p \in Procs :
             req'[p].verifier # None =>
                /\ GeneratedWith(req'[p].state, req'[p].verifier[1], redirects')
                /\ \A s \in 1..issued' :
                      s # req'[p].state
                          => ~GeneratedWith(s, req'[p].verifier[1],
                                            redirects')]_vars

\* Two callbacks of different attempts have both passed their verifier to the
\* token exchange.
C17_Witness ==
    \E p, q \in Procs :
        /\ req[p].state # req[q].state
        /\ req[p].verifier # None /\ req[q].verifier # None
        /\ req[p].verifier # req[q].verifier
        /\ Has(req[p].trace, "token_exchange")
        /\ Has(req[q].trace, "token_exchange")

\* C18: when the lookup finds an account (sign-in path) the callback ends
\* with that account, as it is in the table, and the table is left as it was:
\* no row changed, deleted or created, and nothing of the profile is written.
C18_SignInWritesNothing ==
    [][\A p \in Procs :
          (req'[p].find = "Ok" /\ req'[p] # req[p]) =>
             /\ accounts' = accounts
             /\ nextUid' = nextUid
             /\ req[p].pc = "find" /\ req'[p].pc = "done"
             /\ req'[p].new = None
             /\ ~Has(req'[p].trace, "account_create")
             /\ req'[p].resp.tag = "Ok" =>
                   /\ req'[p].resp.user[1] \in accounts
                   /\ req'[p].resp.user[1].github_id
                          = Some(ProfileId(req[p].user[1]))
                   /\ req'[p].resp.user[1].name # req[p].user[1].preferred_username]_vars

\* A callback signed in to the existing account, whose display name differs
\* from the profile's, and the table still holds exactly that account.
C18_Witness ==
    \E p \in Procs :
        /\ Succeeded(p) /\ req[p].find = "Ok"
        /\ req[p].resp.user = Some(GithubAccount)
        /\ req[p].user[1].preferred_username # GithubAccount.name
        /\ accounts = {GithubAccount}

\* C19: the account table changes only by the create of a callback whose
\* state lookup, token exchange, token-type check, profile fetch and parse
\* all succeeded and whose lookup answered not-found; a step that ends a
\* callback in failure before the account lookup leaves the table as it was.
C19_OnlyCreateWrites ==
    [][/\ accounts' # accounts =>
             \E p \in Procs :
                /\ req[p].pc = "create"
                /\ IsPrefix(Append(req[p].trace, "account_create"),
                            req'[p].trace)
                /\ req[p].verifier # None
                /\ GeneratedWith(req[p].state, req[p].verifier[1], redirects)
                /\ req[p].token # None
                /\ req[p].token[1].token_type = "bearer"
                /\ req[p].fetch # None /\ req[p].fetch[1].status = 200
                /\ req[p].user # None
                /\ req[p].user = ParseUser(req[p].fetch[1].body[1])
                /\ req[p].find = "NotFound"
                /\ accounts' = accounts \cup {req[p].new[1]}
       /\ \A p \in Procs :
             (/\ ~Done(p) /\ req'[p].pc = "done" /\ req'[p].resp.tag = "Err"
              /\ ~Has(req'[p].trace, "account_lookup"))
                 => accounts' = accounts]_vars

\* An account was created by one callback while another failed before the
\* account lookup.
C19_Witness ==
    \E p, q \in Procs :
        /\ Has(req[p].trace, "account_create")
        /\ req[p].new # None /\ req[p].new[1] \in accounts
        /\ Done(q) /\ req[q].resp.tag = "Err"
        /\ Has(req[q].trace, "state_lookup")
        /\ ~Has(req[q].trace, "account_lookup")

\* C20 as stated: when the JWT fails after the sign-up path created an
\* account, the account stays in the table, the correlation entry of that
\* state is gone, and a later login for the same subject finds the account
\* (sign-in path) instead of creating a second one.
C20_JwtFailureAfterSignUp ==
    \A p \in Procs :
        (/\ Done(p) /\ Has(req[p].trace, "account_create")
         /\ req[p].resp.err = Some(ErrorInternalServerError("jwt")))
            => /\ req[p].new[1] \in accounts
               /\ req[p].state \notin DOMAIN store
               /\ find_by_github_id(ProfileId(req[p].user[1]), accounts).tag = "Ok"

====
